---- MODULE Spec2Model ----
(***************************************************************************)
(* HyllaDB (src/vertix/db/hylladb/hylla_db.py): a library directory of      *)
(* sections (directories) and shelves (one shelve file each), an in-memory  *)
(* set of known paths and a registry of per-path locks.                     *)
(*                                                                         *)
(* A path is a sequence of components relative to library_path; a          *)
(* component is a string, "c.db" for the file of shelf c.  A string handed  *)
(* to the API is given as its sequence of "/"-separated parts, each part    *)
(* possibly carrying a ".db" suffix; a dotted logical path "a.b.c" is the   *)
(* sequence of its dot-free parts.  A mapping (a shelf's contents, a        *)
(* metadata dict) is a set of <<key, value>> pairs.                         *)
(*                                                                         *)
(* Spec        one caller; every handler is one action.                     *)
(* SpecThreads two threads; a handler is split where the interpreter may    *)
(*             switch threads.                                              *)
(***************************************************************************)
EXTENDS Integers, Sequences, FiniteSets, TLC

VARIABLES
    dirs,         \* directories under library_path (the root <<>> always exists)
    files,        \* shelve files under library_path: path -> contents
    paths,        \* self.paths
    shelf_locks,  \* self.shelf_locks: path -> Lock object
    cwd_files,    \* shelve files opened relative to the working directory
    res,          \* the last call of the single caller and how it ended
    nops,         \* calls made so far
    clean,        \* no call so far has raised
    pc,           \* SpecThreads: each thread's position
    call,         \* SpecThreads: each thread's current call and its locals
    held,         \* SpecThreads: Lock object -> the thread holding it
    all_locks,    \* every Lock object ever constructed
    tres,         \* SpecThreads: each thread's finished calls' outcomes
    ncalls,       \* SpecThreads: calls started by each thread
    section_path_strs   \* the list given to the constructor

vars == <<dirs, files, paths, shelf_locks, cwd_files, res, nops, clean,
          pc, call, held, all_locks, tres, ncalls, section_path_strs>>

fsvars == <<dirs, files, paths, shelf_locks, cwd_files, all_locks>>
threadvars == <<pc, call, held, tres, ncalls>>

----------------------------------------------------------------------------
(* Bounds and inputs *)

MaxOps == 3       \* calls made by the single caller
MaxCalls == 2     \* calls made by each thread

AllNames == {"a", "b", "c", "z", "metadata", "db"}

EmptyMap == {}
KV == {<<"k", "v">>}
A1 == {<<"a", "1">>}
M1 == {<<"m", "1">>}
Seeds == {EmptyMap, KV}
MetaArgs == {EmptyMap, M1}

\* section_path arguments: "a", "a.b", "z"
SectionArgs == {<<"a">>, <<"a", "b">>, <<"z">>}
\* path arguments of create_shelf: None, "a", "a.b"
ShelfSectionArgs == {<< >>, <<"a">>, <<"a", "b">>}
\* shelf_path arguments: "c", "a.b.c", "a.z.c", "a.b"
ShelfArgs == {<<"c">>, <<"a", "b", "c">>, <<"a", "z", "c">>, <<"a", "b">>}
ShelfNames == {"c", "z", "metadata"}
NewSectionNames == {"a", "z"}
NewShelfNames == {"z", "metadata"}
ShelfMetaArgs == {M1}
\* section_path_strs given to the constructor: None, ["a", "a.b"],
\* ["a", "a.b", "a.z"]
InitialSections == {<< >>, << <<"a">>, <<"a", "b">> >>,
                    << <<"a">>, <<"a", "b">>, <<"a", "z">> >>}

----------------------------------------------------------------------------
(* Paths *)

Db(n) == n \o ".db"
IsDb(c) == \E n \in AllNames : c = Db(n)
Stem(c) == IF IsDb(c) THEN CHOOSE n \in AllNames : c = Db(n) ELSE c
SplitDot(c) == IF IsDb(c) THEN <<Stem(c), "db">> ELSE <<c>>

Parent(p) == SubSeq(p, 1, Len(p) - 1)
Name(p) == p[Len(p)]
IsPrefix(a, p) == Len(a) <= Len(p) /\ SubSeq(p, 1, Len(a)) = a
Beneath(a, p) == Len(a) < Len(p) /\ IsPrefix(a, p)
Rebase(p, old, new) == new \o SubSeq(p, Len(old) + 1, Len(p))

\* path.replace(".", "/"): every "." of every part becomes a separator
RECURSIVE get_validated_path_str(_)
get_validated_path_str(s) ==
    IF s = << >> THEN << >>
    ELSE SplitDot(Head(s)) \o get_validated_path_str(Tail(s))

----------------------------------------------------------------------------
(* The file system *)

FsExists(s, p) == p = << >> \/ p \in s.dirs \/ p \in DOMAIN s.files
FsIsDir(s, p) == p = << >> \/ p \in s.dirs
FsIsFile(s, p) == p \in DOMAIN s.files
FsEntries(s) == s.dirs \cup DOMAIN s.files
FsChildren(s, p) == {q \in FsEntries(s) : Len(q) = Len(p) + 1 /\ IsPrefix(p, q)}

SetFile(f, p, c) == [q \in DOMAIN f \cup {p} |-> IF q = p THEN c ELSE f[q]]
DropFiles(f, ps) == [q \in DOMAIN f \ ps |-> f[q]]

\* Path.mkdir(): "ok" or the exception raised
MkdirOutcome(s, p) ==
    IF FsExists(s, p) THEN "FileExistsError"
    ELSE IF FsIsFile(s, Parent(p)) THEN "NotADirectoryError"
    ELSE IF ~FsIsDir(s, Parent(p)) THEN "FileNotFoundError"
    ELSE "ok"

\* Path.rename(dst) (rename(2)): "ok" or the exception raised
RenameOutcome(s, src, dst) ==
    IF ~FsExists(s, src) THEN "FileNotFoundError"
    ELSE IF FsIsFile(s, Parent(dst)) THEN "NotADirectoryError"
    ELSE IF ~FsIsDir(s, Parent(dst)) THEN "FileNotFoundError"
    ELSE IF src = dst THEN "ok"
    ELSE IF FsIsDir(s, src) THEN
        IF IsPrefix(src, dst) THEN "OSError"
        ELSE IF FsIsFile(s, dst) THEN "NotADirectoryError"
        ELSE IF FsIsDir(s, dst) /\ FsChildren(s, dst) # {} THEN "OSError"
        ELSE "ok"
    ELSE IF FsIsDir(s, dst) THEN "IsADirectoryError"
    ELSE "ok"

\* the tree after a successful rename: src and all beneath it move to dst
Move(p, src, dst) == IF IsPrefix(src, p) THEN Rebase(p, src, dst) ELSE p

RenamedDirs(s, src, dst) ==
    IF src = dst THEN s.dirs ELSE {Move(p, src, dst) : p \in s.dirs \ {dst}}

RenamedFiles(s, src, dst) ==
    IF src = dst THEN s.files
    ELSE LET keep == DOMAIN s.files \ {dst}
         IN [q \in {Move(p, src, dst) : p \in keep} |->
                s.files[CHOOSE p \in keep : Move(p, src, dst) = q]]

\* Path.rmdir()
RmdirOutcome(s, p) ==
    IF ~FsExists(s, p) THEN "FileNotFoundError"
    ELSE IF FsIsFile(s, p) THEN "NotADirectoryError"
    ELSE IF FsChildren(s, p) # {} THEN "OSError"
    ELSE "ok"

\* Path.unlink()
UnlinkOutcome(s, p) ==
    IF ~FsExists(s, p) THEN "FileNotFoundError"
    ELSE IF FsIsDir(s, p) THEN "IsADirectoryError"
    ELSE "ok"

\* Path.glob("**/*.db"): every entry beneath p, at any depth, named *.db
Glob(s, p) == {q \in FsEntries(s) : Beneath(p, q) /\ IsDb(Name(q))}

\* shelve.open(path) with the default flag "c": the file is created when
\* absent; a directory, or a missing parent, cannot be opened
OpenOutcome(s, p) ==
    IF FsIsDir(s, p) THEN "DbmError"
    ELSE IF ~FsIsDir(s, Parent(p)) THEN "DbmError"
    ELSE "ok"

Contents(s, p) == IF FsIsFile(s, p) THEN s.files[p] ELSE EmptyMap

\* dict.update / shelf[key] = value
Update(m, new) == {kv \in m : \A nv \in new : nv[1] # kv[1]} \cup new

\* the stored form of a dict used as a value
Repr(m) == IF m = EmptyMap THEN "{}"
           ELSE IF m = KV THEN "{k:v}"
           ELSE IF m = A1 THEN "{a:1}"
           ELSE IF m = M1 THEN "{m:1}"
           ELSE "{...}"

----------------------------------------------------------------------------
(* The library's state as one value, and a handler's result *)

State == [dirs |-> dirs, files |-> files, paths |-> paths,
          locks |-> shelf_locks, cwd |-> cwd_files, made |-> all_locks]

Ret(s, out, val) == [st |-> s, out |-> out, val |-> val]
None == {}

----------------------------------------------------------------------------
(* The lock registry *)

NewLock(p, t) == [path |-> p, by |-> t]

\* _get_shelf_lock, run without interruption by thread t
get_shelf_lock(s, p, t) ==
    IF p \notin DOMAIN s.locks
    THEN [s EXCEPT !.locks = SetFile(@, p, NewLock(p, t)),
                   !.made = @ \cup {NewLock(p, t)}]
    ELSE s

----------------------------------------------------------------------------
(* Path resolution (hylla_utilities.py) *)

\* resolved_section_path and get_shelf_path: both raise when the joined
\* path does not exist
resolved_section_path(s, section_path) ==
    LET p == get_validated_path_str(section_path)
    IN IF ~FsExists(s, p) THEN Ret(s, "NotFound", None) ELSE Ret(s, "ok", p)

get_shelf_path(s, shelf_path) ==
    LET p == get_validated_path_str(shelf_path)
    IN IF ~FsExists(s, p) THEN Ret(s, "NotFound", None) ELSE Ret(s, "ok", p)

MetadataDb == Db("metadata")

----------------------------------------------------------------------------
(* Section handlers, each run without interruption by thread t *)

\* create_section testing self.paths alone, not the disk
create_section_index_only(s, section_path, metadata, t) ==
    LET p == get_validated_path_str(section_path)
        mp == p \o <<MetadataDb>>
    IN IF p \in s.paths THEN Ret(s, "AlreadyExists", None)
       ELSE IF MkdirOutcome(s, p) # "ok" THEN Ret(s, MkdirOutcome(s, p), None)
       ELSE LET s1 == [s EXCEPT !.dirs = @ \cup {p}, !.paths = @ \cup {p}]
                s2 == get_shelf_lock(s1, mp, t)
            IN IF OpenOutcome(s2, mp) # "ok" THEN Ret(s2, OpenOutcome(s2, mp), None)
               ELSE Ret([s2 EXCEPT !.files = SetFile(@, mp, Update(EmptyMap, metadata))],
                        "ok", None)

create_section(s, section_path, metadata, t) ==
    LET p == get_validated_path_str(section_path)
        mp == p \o <<MetadataDb>>
    IN IF p \in s.paths \/ FsExists(s, p) THEN Ret(s, "AlreadyExists", None)
       ELSE IF MkdirOutcome(s, p) # "ok" THEN Ret(s, MkdirOutcome(s, p), None)
       ELSE LET s1 == [s EXCEPT !.dirs = @ \cup {p}, !.paths = @ \cup {p}]
                s2 == get_shelf_lock(s1, mp, t)
            IN IF OpenOutcome(s2, mp) # "ok" THEN Ret(s2, OpenOutcome(s2, mp), None)
               ELSE Ret([s2 EXCEPT !.files = SetFile(@, mp, Update(EmptyMap, metadata))],
                        "ok", None)

\* the loop of rewrite_section_name over the tracked children of the old path
RECURSIVE RenameChildren(_, _, _, _)
RenameChildren(s, todo, old, new) ==
    IF todo = {} THEN Ret(s, "ok", None)
    ELSE LET c == CHOOSE x \in todo : TRUE
             nc == new \o <<Name(c)>>
             ro == RenameOutcome(s, c, nc)
         IN IF ro # "ok" THEN Ret(s, ro, None)
            ELSE RenameChildren(
                    [s EXCEPT !.dirs = RenamedDirs(s, c, nc),
                              !.files = RenamedFiles(s, c, nc),
                              !.paths = (@ \ {c}) \cup {nc}],
                    todo \ {c}, old, new)

rewrite_section_name(s, new_name, section_path) ==
    LET r == resolved_section_path(s, section_path)
        p == r.val
        np == <<new_name>>
    IN IF r.out # "ok" THEN r
       ELSE IF p \notin s.paths \/ ~FsExists(s, p) THEN Ret(s, "NotFound", None)
       ELSE IF RenameOutcome(s, p, np) # "ok" THEN Ret(s, RenameOutcome(s, p, np), None)
       ELSE LET s1 == [s EXCEPT !.dirs = RenamedDirs(s, p, np),
                                !.files = RenamedFiles(s, p, np),
                                !.paths = (@ \ {p}) \cup {np}]
            IN RenameChildren(s1, {q \in s1.paths : Parent(q) = p}, p, np)

\* rewrite_section_metadata without the shelf.clear()
rewrite_section_metadata_merging(s, section_path, metadata, t) ==
    LET r == resolved_section_path(s, section_path)
        p == r.val
        mp == p \o <<MetadataDb>>
    IN IF r.out # "ok" THEN r
       ELSE IF p \notin s.paths \/ ~FsExists(s, p) THEN Ret(s, "NotFound", None)
       ELSE LET s1 == get_shelf_lock(s, mp, t)
            IN IF OpenOutcome(s1, mp) # "ok" THEN Ret(s1, OpenOutcome(s1, mp), None)
               ELSE Ret([s1 EXCEPT !.files =
                            SetFile(@, mp, Update(Contents(s1, mp), metadata))],
                        "ok", None)

rewrite_section_metadata(s, section_path, metadata, t) ==
    LET r == resolved_section_path(s, section_path)
        p == r.val
        mp == p \o <<MetadataDb>>
    IN IF r.out # "ok" THEN r
       ELSE IF p \notin s.paths \/ ~FsExists(s, p) THEN Ret(s, "NotFound", None)
       ELSE LET s1 == get_shelf_lock(s, mp, t)
            IN IF OpenOutcome(s1, mp) # "ok" THEN Ret(s1, OpenOutcome(s1, mp), None)
               ELSE Ret([s1 EXCEPT !.files = SetFile(@, mp, Update(EmptyMap, metadata))],
                        "ok", None)

\* remove_section with self.paths.remove before the rmdir
remove_section_untrack_first(s, section_path) ==
    LET r == resolved_section_path(s, section_path)
        p == r.val
        s1 == [s EXCEPT !.paths = @ \ {p}]
    IN IF r.out # "ok" THEN r
       ELSE IF p \notin s.paths \/ ~FsExists(s, p) THEN Ret(s, "NotFound", None)
       ELSE IF RmdirOutcome(s1, p) # "ok" THEN Ret(s1, RmdirOutcome(s1, p), None)
       ELSE Ret([s1 EXCEPT !.dirs = @ \ {p}], "ok", None)

remove_section(s, section_path) ==
    LET r == resolved_section_path(s, section_path)
        p == r.val
    IN IF r.out # "ok" THEN r
       ELSE IF p \notin s.paths \/ ~FsExists(s, p) THEN Ret(s, "NotFound", None)
       ELSE IF RmdirOutcome(s, p) # "ok" THEN Ret(s, RmdirOutcome(s, p), None)
       ELSE Ret([s EXCEPT !.dirs = @ \ {p}, !.paths = @ \ {p}], "ok", None)

\* the matches of clear_section's glob that are unlinked before the loop ends:
\* all of them, or, when a match is a directory (unlink raises on it), any
\* of the files, the order of the glob being the directory's own
ClearChoices(s, section_path) ==
    LET p == get_validated_path_str(section_path)
        fm == Glob(s, p) \cap DOMAIN s.files
    IN IF Glob(s, p) \subseteq DOMAIN s.files THEN {fm} ELSE SUBSET fm

\* clear_section unlinking every shelve file of the library
clear_section_whole_library(s, section_path, del) ==
    LET r == resolved_section_path(s, section_path)
        p == r.val
    IN IF r.out # "ok" THEN r
       ELSE IF p \notin s.paths \/ ~FsExists(s, p) THEN Ret(s, "NotFound", None)
       ELSE LET s1 == [s EXCEPT !.files = DropFiles(@, DOMAIN s.files)]
            IN IF Glob(s, p) \subseteq DOMAIN s.files THEN Ret(s1, "ok", None)
               ELSE Ret(s1, "IsADirectoryError", None)

clear_section(s, section_path, del) ==
    LET r == resolved_section_path(s, section_path)
        p == r.val
    IN IF r.out # "ok" THEN r
       ELSE IF p \notin s.paths \/ ~FsExists(s, p) THEN Ret(s, "NotFound", None)
       ELSE LET s1 == [s EXCEPT !.files = DropFiles(@, del)]
            IN IF Glob(s, p) \subseteq DOMAIN s.files THEN Ret(s1, "ok", None)
               ELSE Ret(s1, "IsADirectoryError", None)

----------------------------------------------------------------------------
(* Shelf handlers, each run without interruption by thread t *)

\* create_shelf with the reserved name tested after the section is resolved
create_shelf_reserved_late(s, shelf_name, path, metadata, t) ==
    LET r == IF path = << >> THEN Ret(s, "ok", << >>)
             ELSE resolved_section_path(s, path)
        sp == r.val \o <<Db(shelf_name)>>
    IN IF r.out # "ok" THEN r
       ELSE IF shelf_name = "metadata" THEN Ret(s, "ReservedName", None)
       ELSE IF sp \in s.paths \/ FsExists(s, sp) THEN Ret(s, "AlreadyExists", None)
       ELSE LET s1 == [s EXCEPT !.paths = @ \cup {sp}]
                s2 == get_shelf_lock(s1, sp, t)
            IN IF OpenOutcome(s2, sp) # "ok" THEN Ret(s2, OpenOutcome(s2, sp), None)
               ELSE Ret([s2 EXCEPT !.files =
                            SetFile(@, sp, Update(Contents(s2, sp), metadata))],
                        "ok", None)

\* create_shelf testing the disk alone, not self.paths
create_shelf_disk_only(s, shelf_name, path, metadata, t) ==
    LET r == IF path = << >> THEN Ret(s, "ok", << >>)
             ELSE resolved_section_path(s, path)
        sp == r.val \o <<Db(shelf_name)>>
    IN IF shelf_name = "metadata" THEN Ret(s, "ReservedName", None)
       ELSE IF r.out # "ok" THEN r
       ELSE IF FsExists(s, sp) THEN Ret(s, "AlreadyExists", None)
       ELSE LET s1 == [s EXCEPT !.paths = @ \cup {sp}]
                s2 == get_shelf_lock(s1, sp, t)
            IN IF OpenOutcome(s2, sp) # "ok" THEN Ret(s2, OpenOutcome(s2, sp), None)
               ELSE Ret([s2 EXCEPT !.files =
                            SetFile(@, sp, Update(Contents(s2, sp), metadata))],
                        "ok", None)

create_shelf(s, shelf_name, path, metadata, t) ==
    LET r == IF path = << >> THEN Ret(s, "ok", << >>)
             ELSE resolved_section_path(s, path)
        sp == r.val \o <<Db(shelf_name)>>
    IN IF shelf_name = "metadata" THEN Ret(s, "ReservedName", None)
       ELSE IF r.out # "ok" THEN r
       ELSE IF sp \in s.paths \/ FsExists(s, sp) THEN Ret(s, "AlreadyExists", None)
       ELSE LET s1 == [s EXCEPT !.paths = @ \cup {sp}]
                s2 == get_shelf_lock(s1, sp, t)
            IN IF OpenOutcome(s2, sp) # "ok" THEN Ret(s2, OpenOutcome(s2, sp), None)
               ELSE Ret([s2 EXCEPT !.files =
                            SetFile(@, sp, Update(Contents(s2, sp), metadata))],
                        "ok", None)

checkout_shelf(s, shelf_path, t) ==
    LET r == get_shelf_path(s, shelf_path)
        p == r.val
    IN IF r.out # "ok" THEN r
       ELSE IF ~FsExists(s, p) \/ p \notin s.paths THEN Ret(s, "NotFound", None)
       ELSE LET s1 == get_shelf_lock(s, p, t)
            IN IF OpenOutcome(s1, p) # "ok" THEN Ret(s1, OpenOutcome(s1, p), None)
               ELSE Ret(s1, "ok", Contents(s1, p))

rewrite_shelf_metadata(s, shelf_path, metadata, t) ==
    LET r == get_shelf_path(s, shelf_path)
        p == r.val
    IN IF r.out # "ok" THEN r
       ELSE IF ~FsExists(s, p) \/ p \notin s.paths THEN Ret(s, "NotFound", None)
       ELSE LET s1 == get_shelf_lock(s, p, t)
            IN IF OpenOutcome(s1, p) # "ok" THEN Ret(s1, OpenOutcome(s1, p), None)
               ELSE Ret([s1 EXCEPT !.files =
                            SetFile(@, p, Update(Contents(s1, p),
                                                 {<<"metadata", Repr(metadata)>>}))],
                        "ok", None)

\* rewrite_shelf_name testing the disk alone, not self.paths
rewrite_shelf_name_disk_only(s, new_name, shelf_path) ==
    LET r == get_shelf_path(s, shelf_path)
        p == r.val
        np == Parent(p) \o <<Db(new_name)>>
    IN IF r.out # "ok" THEN r
       ELSE IF ~FsExists(s, p) THEN Ret(s, "NotFound", None)
       ELSE IF RenameOutcome(s, p, np) # "ok" THEN Ret(s, RenameOutcome(s, p, np), None)
       ELSE Ret([s EXCEPT !.dirs = RenamedDirs(s, p, np),
                          !.files = RenamedFiles(s, p, np),
                          !.paths = (@ \ {p}) \cup {np}], "ok", None)

rewrite_shelf_name(s, new_name, shelf_path) ==
    LET r == get_shelf_path(s, shelf_path)
        p == r.val
        np == Parent(p) \o <<Db(new_name)>>
    IN IF r.out # "ok" THEN r
       ELSE IF ~FsExists(s, p) \/ p \notin s.paths THEN Ret(s, "NotFound", None)
       ELSE IF RenameOutcome(s, p, np) # "ok" THEN Ret(s, RenameOutcome(s, p, np), None)
       ELSE Ret([s EXCEPT !.dirs = RenamedDirs(s, p, np),
                          !.files = RenamedFiles(s, p, np),
                          !.paths = (@ \ {p}) \cup {np}], "ok", None)

remove_shelf(s, shelf_path) ==
    LET r == get_shelf_path(s, shelf_path)
        p == r.val
        s1 == [s EXCEPT !.paths = @ \ {p}]
    IN IF r.out # "ok" THEN r
       ELSE IF ~FsExists(s, p) THEN Ret(s, "NotFound", None)
       ELSE IF p \notin s.paths THEN Ret(s, "KeyError", None)
       ELSE IF UnlinkOutcome(s1, p) # "ok" THEN Ret(s1, UnlinkOutcome(s1, p), None)
       ELSE Ret([s1 EXCEPT !.files = DropFiles(@, {p})], "ok", None)

\* the shelf is opened by the string given, relative to the working directory
clear_shelf(s, shelf_path, t) ==
    LET r == get_shelf_path(s, shelf_path)
        p == r.val
    IN IF r.out # "ok" THEN r
       ELSE LET s1 == get_shelf_lock(s, p, t)
            IN Ret([s1 EXCEPT !.cwd = @ \cup {shelf_path}], "ok", None)

----------------------------------------------------------------------------
(* checkout_section, checkout_library and _build_nested_dict *)

TreeFiles(s, cur) == {f \in DOMAIN s.files : IsPrefix(cur, f)}

\* iterdir gives no order.  The walk is decided by the shelf file it reaches
\* first (pick) and, where two children of a directory have the same stem,
\* by the one it reaches last (last), whose entry overwrites the other's.
Colliding(s, cur) ==
    {q \in FsEntries(s) : /\ Beneath(cur, q)
                          /\ \E q2 \in FsChildren(s, Parent(q)) :
                                q2 # q /\ Stem(Name(q2)) = Stem(Name(q))}

LastChoices(s, cur) ==
    {L \in SUBSET Colliding(s, cur) :
        \A q \in Colliding(s, cur) :
            Cardinality({q2 \in L : Parent(q2) = Parent(q)
                                    /\ Stem(Name(q2)) = Stem(Name(q))}) = 1}

PickChoices(s, cur) == IF TreeFiles(s, cur) = {} THEN {<< >>} ELSE TreeFiles(s, cur)

\* the calls checkout_shelf(str(current_path)) of the walk, pick first
RECURSIVE VisitFiles(_, _, _, _, _)
VisitFiles(s, todo, pick, leaf, t) ==
    IF todo = {} THEN Ret(s, "ok", leaf)
    ELSE LET f == IF pick \in todo THEN pick ELSE CHOOSE x \in todo : TRUE
             r == IF IsDb(Name(f)) THEN checkout_shelf(s, f, t)
                  ELSE Ret(s, "ok", EmptyMap)
         IN IF r.out # "ok" THEN r
            ELSE VisitFiles(r.st, todo \ {f}, pick, SetFile(leaf, f, r.val), t)

\* the nested dict of a walk in which every checkout returned
RECURSIVE NestedDict(_, _, _, _)
NestedDict(s, cur, leaf, last) ==
    IF FsIsFile(s, cur) THEN leaf[cur]
    ELSE {<<Stem(Name(ch)), NestedDict(s, ch, leaf, last)>> :
            ch \in {q \in FsChildren(s, cur) :
                        q \in Colliding(s, Parent(q)) => q \in last}}

build_nested_dict(s, cur, pick, last, t) ==
    IF FsIsFile(s, cur) /\ IsDb(Name(cur)) THEN checkout_shelf(s, cur, t)
    ELSE IF FsIsDir(s, cur) THEN
        LET r == VisitFiles(s, TreeFiles(s, cur), pick, << >>, t)
        IN IF r.out # "ok" THEN r
           ELSE Ret(r.st, "ok", NestedDict(r.st, cur, r.val, last))
    ELSE Ret(s, "ok", EmptyMap)

checkout_section(s, section_path, pick, last, t) ==
    LET r == resolved_section_path(s, section_path)
        p == r.val
    IN IF r.out # "ok" THEN r
       ELSE IF p \notin s.paths \/ ~FsExists(s, p) THEN Ret(s, "NotFound", None)
       ELSE build_nested_dict(s, p, pick, last, t)

checkout_library(s, pick, last, t) == build_nested_dict(s, << >>, pick, last, t)

----------------------------------------------------------------------------
(* Construction: __post_init__ *)

EmptyLibrary == [dirs |-> {}, files |-> << >>, paths |-> {}, locks |-> << >>,
                 cwd |-> {}, made |-> {}]

\* the loop over section_path_strs; the first failure ends construction
RECURSIVE CreateInitialSections(_, _)
CreateInitialSections(s, secs) ==
    IF secs = << >> THEN Ret(s, "ok", None)
    ELSE LET r == create_section(s, Head(secs), EmptyMap, "main")
         IN IF r.out # "ok" THEN r ELSE CreateInitialSections(r.st, Tail(secs))

post_init(secs) == CreateInitialSections(EmptyLibrary, secs)

----------------------------------------------------------------------------
(* One caller: every handler is one action *)

Threads == {"t1", "t2"}

Call(op, name, path, md, r) ==
    [op |-> op, name |-> name, path |-> path, md |-> md, out |-> r.out, val |-> r.val]

NoCall == [op |-> "init", name |-> "", path |-> << >>, md |-> EmptyMap,
           out |-> "ok", val |-> None]

\* a thread's call in progress: its arguments and its locals
ThreadCall(op, name, path, md) ==
    [op |-> op, name |-> name, path |-> path, md |-> md, out |-> "ok",
     target |-> << >>, lock |-> NewLock(<< >>, "none"), todo |-> {}]

Idle == ThreadCall("none", "", << >>, EmptyMap)

Install(s) ==
    /\ dirs' = s.dirs
    /\ files' = s.files
    /\ paths' = s.paths
    /\ shelf_locks' = s.locks
    /\ cwd_files' = s.cwd
    /\ all_locks' = s.made

Finish(op, name, path, md, r) ==
    /\ nops < MaxOps
    /\ nops' = nops + 1
    /\ Install(r.st)
    /\ res' = Call(op, name, path, md, r)
    /\ clean' = (clean /\ r.out = "ok")
    /\ UNCHANGED <<threadvars, section_path_strs>>

Init ==
    /\ \E secs \in InitialSections :
          /\ post_init(secs).out = "ok"
          /\ dirs = post_init(secs).st.dirs
          /\ files = post_init(secs).st.files
          /\ paths = post_init(secs).st.paths
          /\ shelf_locks = post_init(secs).st.locks
          /\ cwd_files = post_init(secs).st.cwd
          /\ all_locks = post_init(secs).st.made
          /\ section_path_strs = secs
    /\ res = NoCall
    /\ nops = 0
    /\ clean = TRUE
    /\ pc = [t \in Threads |-> "idle"]
    /\ call = [t \in Threads |-> Idle]
    /\ held = << >>
    /\ tres = [t \in Threads |-> NoCall]
    /\ ncalls = [t \in Threads |-> 0]

CreateSection ==
    \E sp \in SectionArgs, md \in MetaArgs :
        Finish("create_section", "", sp, md, create_section(State, sp, md, "main"))

CheckoutSection ==
    \E sp \in SectionArgs :
        \E pick \in PickChoices(State, get_validated_path_str(sp)),
           last \in LastChoices(State, get_validated_path_str(sp)) :
            Finish("checkout_section", "", sp, EmptyMap,
                   checkout_section(State, sp, pick, last, "main"))

RewriteSectionName ==
    \E sp \in SectionArgs, new \in NewSectionNames :
        Finish("rewrite_section_name", new, sp, EmptyMap,
               rewrite_section_name(State, new, sp))

RewriteSectionMetadata ==
    \E sp \in SectionArgs, md \in MetaArgs :
        Finish("rewrite_section_metadata", "", sp, md,
               rewrite_section_metadata(State, sp, md, "main"))

RemoveSection ==
    \E sp \in SectionArgs :
        Finish("remove_section", "", sp, EmptyMap, remove_section(State, sp))

ClearSection ==
    \E sp \in SectionArgs :
        \E del \in ClearChoices(State, sp) :
            Finish("clear_section", "", sp, EmptyMap, clear_section(State, sp, del))

CreateShelf ==
    \E n \in ShelfNames, sp \in ShelfSectionArgs, md \in Seeds :
        Finish("create_shelf", n, sp, md, create_shelf(State, n, sp, md, "main"))

CheckoutShelf ==
    \E sp \in ShelfArgs :
        Finish("checkout_shelf", "", sp, EmptyMap, checkout_shelf(State, sp, "main"))

RewriteShelfMetadata ==
    \E sp \in ShelfArgs, md \in ShelfMetaArgs :
        Finish("rewrite_shelf_metadata", "", sp, md,
               rewrite_shelf_metadata(State, sp, md, "main"))

RewriteShelfName ==
    \E sp \in ShelfArgs, new \in NewShelfNames :
        Finish("rewrite_shelf_name", new, sp, EmptyMap,
               rewrite_shelf_name(State, new, sp))

RemoveShelf ==
    \E sp \in ShelfArgs :
        Finish("remove_shelf", "", sp, EmptyMap, remove_shelf(State, sp))

ClearShelf ==
    \E sp \in ShelfArgs :
        Finish("clear_shelf", "", sp, EmptyMap, clear_shelf(State, sp, "main"))

CheckoutLibrary ==
    \E pick \in PickChoices(State, << >>), last \in LastChoices(State, << >>) :
        Finish("checkout_library", "", << >>, EmptyMap,
               checkout_library(State, pick, last, "main"))

Next ==
    \/ CreateSection
    \/ CheckoutSection
    \/ RewriteSectionName
    \/ RewriteSectionMetadata
    \/ RemoveSection
    \/ ClearSection
    \/ CreateShelf
    \/ CheckoutShelf
    \/ RewriteShelfMetadata
    \/ RewriteShelfName
    \/ RemoveShelf
    \/ ClearShelf
    \/ CheckoutLibrary

Spec == Init /\ [][Next]_vars

----------------------------------------------------------------------------
(* Two threads.  A handler is split where another thread may run: between  *)
(* the test, the store and the return of _get_shelf_lock, before the lock  *)
(* is acquired, and between opening a shelf, writing it and leaving the    *)
(* with-blocks.                                                            *)

ThreadSections == << <<"a">> >>      \* section_path_strs of the shared library
ThreadSectionArgs == {<<"a">>}
ThreadShelfNames == {"c"}
ThreadSeeds == {KV, A1}

Outcome(c, out) ==
    [op |-> c.op, name |-> c.name, path |-> c.path, md |-> c.md, out |-> out,
     val |-> None]

\* the call of thread t returns or raises
Return(t, c, out) ==
    /\ pc' = [pc EXCEPT ![t] = "idle"]
    /\ call' = [call EXCEPT ![t] = Idle]
    /\ tres' = [tres EXCEPT ![t] = Outcome(c, out)]

Begin(t) ==
    /\ pc[t] = "idle"
    /\ ncalls[t] < MaxCalls
    /\ ncalls' = [ncalls EXCEPT ![t] = @ + 1]

Goto(t, label, c) ==
    /\ pc' = [pc EXCEPT ![t] = label]
    /\ call' = [call EXCEPT ![t] = c]
    /\ UNCHANGED tres

InShelf(t) == pc[t] = "write"       \* between shelve.open and the close

\* create_shelf up to the test of line 219
StartCreateShelf(t) ==
    /\ Begin(t)
    /\ \E n \in ThreadShelfNames, sp \in ThreadSectionArgs, md \in ThreadSeeds :
        LET c == ThreadCall("create_shelf", n, sp, md)
            r == resolved_section_path(State, sp)
            target == r.val \o <<Db(n)>>
        IN IF n = "metadata" THEN Return(t, c, "ReservedName")
           ELSE IF r.out # "ok" THEN Return(t, c, r.out)
           ELSE IF target \in paths \/ FsExists(State, target)
                THEN Return(t, c, "AlreadyExists")
           ELSE Goto(t, "add_path", [c EXCEPT !.target = target])
    /\ UNCHANGED <<fsvars, held, res, nops, clean, section_path_strs>>

\* create_shelf, line 221
AddPath(t) ==
    /\ pc[t] = "add_path"
    /\ paths' = paths \cup {call[t].target}
    /\ Goto(t, "lock_test", call[t])
    /\ UNCHANGED <<dirs, files, shelf_locks, cwd_files, all_locks,
                   held, ncalls, res, nops, clean, section_path_strs>>

\* rewrite_section_metadata up to line 151
StartRewriteSectionMetadata(t) ==
    /\ Begin(t)
    /\ \E sp \in ThreadSectionArgs, md \in MetaArgs :
        LET c == ThreadCall("rewrite_section_metadata", "", sp, md)
            r == resolved_section_path(State, sp)
        IN IF r.out # "ok" THEN Return(t, c, r.out)
           ELSE IF r.val \notin paths \/ ~FsExists(State, r.val)
                THEN Return(t, c, "NotFound")
           ELSE Goto(t, "lock_test", [c EXCEPT !.target = r.val \o <<MetadataDb>>])
    /\ UNCHANGED <<fsvars, held, res, nops, clean, section_path_strs>>

\* _get_shelf_lock, line 37
LockTest(t) ==
    /\ pc[t] = "lock_test"
    /\ Goto(t, IF call[t].target \notin DOMAIN shelf_locks
               THEN "lock_store" ELSE "lock_return", call[t])
    /\ UNCHANGED <<fsvars, held, ncalls, res, nops, clean, section_path_strs>>

\* _get_shelf_lock, line 38
LockStore(t) ==
    /\ pc[t] = "lock_store"
    /\ shelf_locks' = SetFile(shelf_locks, call[t].target, NewLock(call[t].target, t))
    /\ all_locks' = all_locks \cup {NewLock(call[t].target, t)}
    /\ Goto(t, "lock_return", call[t])
    /\ UNCHANGED <<dirs, files, paths, cwd_files, held, ncalls, res, nops, clean, section_path_strs>>

\* _get_shelf_lock, line 39
LockReturn(t) ==
    /\ pc[t] = "lock_return"
    /\ Goto(t, "acquire", [call[t] EXCEPT !.lock = shelf_locks[call[t].target]])
    /\ UNCHANGED <<fsvars, held, ncalls, res, nops, clean, section_path_strs>>

\* with lock: blocks while another thread holds this Lock object
Acquire(t) ==
    /\ pc[t] = "acquire"
    /\ call[t].lock \notin DOMAIN held
    /\ held' = SetFile(held, call[t].lock, t)
    /\ Goto(t, "open", call[t])
    /\ UNCHANGED <<fsvars, ncalls, res, nops, clean, section_path_strs>>

\* with shelve.open(...): the file is created when absent
Open(t) ==
    /\ pc[t] = "open"
    /\ IF OpenOutcome(State, call[t].target) # "ok"
       THEN /\ Goto(t, "release",
                    [call[t] EXCEPT !.out = OpenOutcome(State, call[t].target)])
            /\ UNCHANGED files
       ELSE /\ files' = SetFile(files, call[t].target, Contents(State, call[t].target))
            /\ Goto(t, "write", call[t])
    /\ UNCHANGED <<dirs, paths, shelf_locks, cwd_files, all_locks,
                   held, ncalls, res, nops, clean, section_path_strs>>

\* shelve.open of a file another thread has open: a dbm that locks its file
\* (dbm.gnu) refuses, one that does not lets both in (Open)
OpenRefused(t) ==
    /\ pc[t] = "open"
    /\ OpenOutcome(State, call[t].target) = "ok"
    /\ \E u \in Threads \ {t} : InShelf(u) /\ call[u].target = call[t].target
    /\ Goto(t, "release", [call[t] EXCEPT !.out = "DbmError"])
    /\ UNCHANGED <<fsvars, held, ncalls, res, nops, clean, section_path_strs>>

\* the body of the with-blocks and the close; a file unlinked meanwhile is
\* written through the open handle and gone at the close
Written(c, old) ==
    IF c.op = "create_shelf" THEN Update(old, c.md)
    ELSE IF c.op = "checkout_section" THEN old
    ELSE Update(EmptyMap, c.md)

Write(t) ==
    /\ pc[t] = "write"
    /\ files' = IF FsIsFile(State, call[t].target)
                THEN SetFile(files, call[t].target,
                             Written(call[t], files[call[t].target]))
                ELSE files
    /\ Goto(t, "release", call[t])
    /\ UNCHANGED <<dirs, paths, shelf_locks, cwd_files, all_locks,
                   held, ncalls, res, nops, clean, section_path_strs>>

\* leaving with lock: without releasing the Lock
Release_keeping_lock(t) ==
    /\ pc[t] = "release"
    /\ held' = held
    /\ IF call[t].op = "checkout_section" /\ call[t].out = "ok"
       THEN Goto(t, "walk", call[t])
       ELSE Return(t, call[t], call[t].out)
    /\ UNCHANGED <<fsvars, ncalls, res, nops, clean, section_path_strs>>

\* leaving with lock: the handler returns or raises, or, when the shelf was
\* checked out by _build_nested_dict, the walk goes on
Release(t) ==
    /\ pc[t] = "release"
    /\ held' = DropFiles(held, {call[t].lock})
    /\ IF call[t].op = "checkout_section" /\ call[t].out = "ok"
       THEN Goto(t, "walk", call[t])
       ELSE Return(t, call[t], call[t].out)
    /\ UNCHANGED <<fsvars, ncalls, res, nops, clean, section_path_strs>>

\* clear_section up to the glob of line 196
StartClearSection(t) ==
    /\ Begin(t)
    /\ \E sp \in ThreadSectionArgs :
        LET c == ThreadCall("clear_section", "", sp, EmptyMap)
            r == resolved_section_path(State, sp)
        IN IF r.out # "ok" THEN Return(t, c, r.out)
           ELSE IF r.val \notin paths \/ ~FsExists(State, r.val)
                THEN Return(t, c, "NotFound")
           ELSE Goto(t, "unlink", [c EXCEPT !.todo = Glob(State, r.val)])
    /\ UNCHANGED <<fsvars, held, res, nops, clean, section_path_strs>>

\* clear_section, line 197, for one match of the glob
Unlink(t) ==
    /\ pc[t] = "unlink"
    /\ \E f \in call[t].todo :
        IF UnlinkOutcome(State, f) # "ok"
        THEN /\ Return(t, call[t], UnlinkOutcome(State, f))
             /\ UNCHANGED files
        ELSE /\ files' = DropFiles(files, {f})
             /\ Goto(t, "unlink", [call[t] EXCEPT !.todo = @ \ {f}])
    /\ UNCHANGED <<dirs, paths, shelf_locks, cwd_files, all_locks,
                   held, ncalls, res, nops, clean, section_path_strs>>

\* clear_section: the glob is exhausted
ClearDone(t) ==
    /\ pc[t] = "unlink"
    /\ call[t].todo = {}
    /\ Return(t, call[t], "ok")
    /\ UNCHANGED <<fsvars, held, ncalls, res, nops, clean, section_path_strs>>

\* checkout_section up to the call of _build_nested_dict
StartCheckoutSection(t) ==
    /\ Begin(t)
    /\ \E sp \in ThreadSectionArgs :
        LET c == ThreadCall("checkout_section", "", sp, EmptyMap)
            r == resolved_section_path(State, sp)
        IN IF r.out # "ok" THEN Return(t, c, r.out)
           ELSE IF r.val \notin paths \/ ~FsExists(State, r.val)
                THEN Return(t, c, "NotFound")
           ELSE Goto(t, "walk", [c EXCEPT !.todo = {r.val}])
    /\ UNCHANGED <<fsvars, held, res, nops, clean, section_path_strs>>

\* _build_nested_dict for one path still to visit: a .db file is checked out
\* by str(current_path), a directory is listed, anything else gives {}
WalkStep(t) ==
    /\ pc[t] = "walk"
    /\ \E f \in call[t].todo :
        LET c == [call[t] EXCEPT !.todo = @ \ {f}]
            r == get_shelf_path(State, f)
        IN IF FsIsFile(State, f) /\ IsDb(Name(f)) THEN
                IF r.out # "ok" THEN Return(t, c, r.out)
                ELSE IF ~FsExists(State, r.val) \/ r.val \notin paths
                     THEN Return(t, c, "NotFound")
                ELSE Goto(t, "lock_test", [c EXCEPT !.target = r.val])
           ELSE IF FsIsDir(State, f)
                THEN Goto(t, "walk", [c EXCEPT !.todo = @ \cup FsChildren(State, f)])
           ELSE Goto(t, "walk", c)
    /\ UNCHANGED <<fsvars, held, ncalls, res, nops, clean, section_path_strs>>

\* _build_nested_dict: nothing is left to visit
WalkDone(t) ==
    /\ pc[t] = "walk"
    /\ call[t].todo = {}
    /\ Return(t, call[t], "ok")
    /\ UNCHANGED <<fsvars, held, ncalls, res, nops, clean, section_path_strs>>

InitThreads ==
    /\ dirs = post_init(ThreadSections).st.dirs
    /\ files = post_init(ThreadSections).st.files
    /\ paths = post_init(ThreadSections).st.paths
    /\ shelf_locks = post_init(ThreadSections).st.locks
    /\ cwd_files = post_init(ThreadSections).st.cwd
    /\ all_locks = post_init(ThreadSections).st.made
    /\ section_path_strs = ThreadSections
    /\ res = NoCall
    /\ nops = 0
    /\ clean = TRUE
    /\ pc = [t \in Threads |-> "idle"]
    /\ call = [t \in Threads |-> Idle]
    /\ held = << >>
    /\ tres = [t \in Threads |-> NoCall]
    /\ ncalls = [t \in Threads |-> 0]

NextThreads ==
    \E t \in Threads :
        \/ StartCreateShelf(t)
        \/ AddPath(t)
        \/ StartRewriteSectionMetadata(t)
        \/ LockTest(t)
        \/ LockStore(t)
        \/ LockReturn(t)
        \/ Acquire(t)
        \/ Open(t)
        \/ OpenRefused(t)
        \/ Write(t)
        \/ Release(t)
        \/ StartClearSection(t)
        \/ Unlink(t)
        \/ ClearDone(t)
        \/ StartCheckoutSection(t)
        \/ WalkStep(t)
        \/ WalkDone(t)

SpecThreads == InitThreads /\ [][NextThreads]_vars

\* the steps of a call under way that need no Lock to be free
Running(t) ==
    \/ AddPath(t)
    \/ LockTest(t)
    \/ LockStore(t)
    \/ LockReturn(t)
    \/ Open(t)
    \/ OpenRefused(t)
    \/ Write(t)
    \/ Release(t)
    \/ Unlink(t)
    \/ ClearDone(t)
    \/ WalkStep(t)
    \/ WalkDone(t)

\* Fair scheduling: a thread that can run does run, file I/O returns, and a
\* thread that finds its Lock free again and again gets it.  Whether a
\* thread starts a call is up to its caller.
FairSpecThreads ==
    /\ SpecThreads
    /\ \A t \in Threads : WF_vars(Running(t)) /\ SF_vars(Acquire(t))

----------------------------------------------------------------------------
(* Construction, one initial section at a time.  nops counts the sections  *)
(* of section_path_strs that create_section has been called for, clean     *)
(* says that none of the calls has raised.                                 *)

\* the lists given to the constructor: up to MaxSections of these paths
ConstructPaths == {<<"a">>, <<"a", "b">>, <<"z">>, <<"z", "b">>}
MaxSections == 3
ConstructArgs ==
    UNION {[1..n -> ConstructPaths] : n \in 0..MaxSections}

InitConstruct ==
    /\ section_path_strs \in ConstructArgs
    /\ dirs = EmptyLibrary.dirs
    /\ files = EmptyLibrary.files
    /\ paths = EmptyLibrary.paths
    /\ shelf_locks = EmptyLibrary.locks
    /\ cwd_files = EmptyLibrary.cwd
    /\ all_locks = EmptyLibrary.made
    /\ res = NoCall
    /\ nops = 0
    /\ clean = TRUE
    /\ pc = [t \in Threads |-> "idle"]
    /\ call = [t \in Threads |-> Idle]
    /\ held = << >>
    /\ tres = [t \in Threads |-> NoCall]
    /\ ncalls = [t \in Threads |-> 0]

\* the loop of __post_init__ going on after a create_section has raised
CreateInitialSection_continuing ==
    /\ nops < Len(section_path_strs)
    /\ LET sp == section_path_strs[nops + 1]
           r == create_section(State, sp, EmptyMap, "main")
       IN /\ Install(r.st)
          /\ res' = Call("create_section", "", sp, EmptyMap, r)
          /\ clean' = (clean /\ r.out = "ok")
    /\ nops' = nops + 1
    /\ UNCHANGED <<threadvars, section_path_strs>>

\* one iteration of the loop of __post_init__; an exception of
\* create_section leaves the loop and the constructor
CreateInitialSection ==
    /\ clean
    /\ nops < Len(section_path_strs)
    /\ LET sp == section_path_strs[nops + 1]
           r == create_section(State, sp, EmptyMap, "main")
       IN /\ Install(r.st)
          /\ res' = Call("create_section", "", sp, EmptyMap, r)
          /\ clean' = (r.out = "ok")
    /\ nops' = nops + 1
    /\ UNCHANGED <<threadvars, section_path_strs>>

NextConstruct == CreateInitialSection

SpecConstruct == InitConstruct /\ [][NextConstruct]_vars

----------------------------------------------------------------------------
(* Claims about the single caller (Spec) *)

\* the dotted logical path of the shelf created by create_shelf(name, path)
ShelfLogical(name, path) == path \o <<name>>
\* the file create_shelf gives the shelf of a dotted logical path
ShelfFileOf(lp) == get_validated_path_str(Parent(lp)) \o <<Db(Name(lp))>>

Called(op) == nops' = nops + 1 /\ res'.op = op

\* C1: after create_shelf(name, section, D) succeeds, checkout_shelf on the
\* dotted path section.name succeeds and returns exactly D.
C1_RoundTrip ==
    (res.op = "create_shelf" /\ res.out = "ok") =>
        LET r == checkout_shelf(State, ShelfLogical(res.name, res.path), "main")
        IN r.out = "ok" /\ r.val = res.md

\* C3: after calls that all completed without error, every known path exists
\* on disk, and every directory and every user shelf file is a known path.
IndexMatchesDisk ==
    /\ \A p \in paths : FsExists(State, p)
    /\ \A d \in dirs : d \in paths
    /\ \A f \in DOMAIN files : Name(f) # MetadataDb => f \in paths

C3_IndexDiskConsistent == clean => IndexMatchesDisk

\* C4: with section a.b and its shelf a.b.c tracked, renaming a.b to z
\* completes, after which checkout of a.z.c returns the shelf's contents and
\* checkout of a.b.c fails with NotFound.
C4_CascadingRename ==
    [][(/\ Called("rewrite_section_name")
        /\ res'.name = "z" /\ res'.path = <<"a", "b">>
        /\ <<"a", "b">> \in paths \cap dirs
        /\ <<"a", "b", "c.db">> \in paths \cap DOMAIN files)
       => (/\ res'.out = "ok"
           /\ checkout_shelf(State', <<"a", "z", "c">>, "main").out = "ok"
           /\ checkout_shelf(State', <<"a", "z", "c">>, "main").val
                = files[<<"a", "b", "c.db">>]
           /\ checkout_shelf(State', <<"a", "b", "c">>, "main").out = "NotFound")]_vars

\* C5: clear_shelf on a tracked, existing shelf completes; a checkout then
\* returns the empty mapping, the file is still there and tracked, and a
\* second clear_shelf completes too.
C5_IdempotentClear ==
    [][(/\ Called("clear_shelf")
        /\ ShelfFileOf(res'.path) \in paths \cap DOMAIN files)
       => (/\ res'.out = "ok"
           /\ checkout_shelf(State', res'.path, "main").out = "ok"
           /\ checkout_shelf(State', res'.path, "main").val = EmptyMap
           /\ ShelfFileOf(res'.path) \in paths' \cap DOMAIN files'
           /\ clear_shelf(State', res'.path, "main").out = "ok")]_vars

\* the nested mapping of the tree: a leaf per shelf file, a mapping per directory
RECURSIVE Materialized(_, _)
Materialized(s, cur) ==
    IF FsIsFile(s, cur) THEN s.files[cur]
    ELSE {<<Stem(Name(ch)), Materialized(s, ch)>> : ch \in FsChildren(s, cur)}

\* C8: in a library with a section holding a shelf {k: v} and a shelf at the
\* root, checkout_library completes and returns the nested mapping of the tree.
C8_FullMaterialization ==
    (/\ res.op = "checkout_library"
     /\ \E f \in paths \cap DOMAIN files :
            Parent(f) \in paths \cap dirs /\ files[f] = KV
     /\ \E g \in paths \cap DOMAIN files : Len(g) = 1)
    => (res.out = "ok" /\ res.val = Materialized(State, << >>))

\* C9: create_shelf with the name "metadata" raises the reserved-name error
\* whatever the section, and changes neither known paths nor any file.
C9_ReservedNameRejected ==
    [][(Called("create_shelf") /\ res'.name = "metadata")
       => (res'.out = "ReservedName" /\ UNCHANGED fsvars)]_vars

C9_Witness ==
    /\ res.op = "create_shelf" /\ res.name = "metadata"
    /\ res.out = "ReservedName"
    /\ ~FsExists(State, get_validated_path_str(res.path))
    /\ dirs # {}

\* C10: create_section on a path that is tracked or on disk raises
\* AlreadyExists and changes nothing; the second of two consecutive
\* create_section calls for one path fails.
C10_DuplicateSectionRejected ==
    [][Called("create_section") =>
        /\ (\/ get_validated_path_str(res'.path) \in paths
            \/ FsExists(State, get_validated_path_str(res'.path)))
           => (res'.out = "AlreadyExists" /\ UNCHANGED fsvars)
        /\ (res.op = "create_section" /\ res.path = res'.path)
           => res'.out # "ok"]_vars

C10_Witness ==
    /\ res.op = "create_section" /\ res.out = "AlreadyExists"
    /\ get_validated_path_str(res.path) \in paths \cap dirs
    /\ FsIsFile(State, get_validated_path_str(res.path) \o <<MetadataDb>>)
    /\ files[get_validated_path_str(res.path) \o <<MetadataDb>>] # res.md

\* the file create_shelf(name, path) targets
ShelfTarget(name, path) == get_validated_path_str(path) \o <<Db(name)>>

C13_RenameUpdatesIndexSubtree ==
    [][(/\ Called("rewrite_section_name")
        /\ res'.out = "ok"
        /\ get_validated_path_str(res'.path) # <<res'.name>>)
       => LET old == get_validated_path_str(res'.path)
              new == <<res'.name>>
          IN /\ new \in paths'
             /\ \A q \in paths' : ~IsPrefix(old, q)
             /\ \A q \in paths : Beneath(old, q) => Rebase(q, old, new) \in paths']_vars

\* C14: remove_shelf on a created shelf (its file on disk and a known path)
\* completes, after which the file is gone from disk and from the known
\* paths, and create_shelf with the same name in the same section succeeds.
C14_RemoveThenReuse ==
    [][(/\ Called("remove_shelf")
        /\ ShelfFileOf(res'.path) \in paths \cap DOMAIN files)
       => (/\ res'.out = "ok"
           /\ ShelfFileOf(res'.path) \notin DOMAIN files'
           /\ ShelfFileOf(res'.path) \notin paths'
           /\ create_shelf(State', Name(res'.path), Parent(res'.path), KV,
                           "main").out = "ok")]_vars

\* C15: after calls that all completed without error, every section that is
\* a known path and on disk holds its metadata container, metadata.db.
C15_OneMetadataPerSection ==
    clean => \A p \in paths \cap dirs : FsIsFile(State, p \o <<MetadataDb>>)

ShelfReadUpdateOps == {"checkout_shelf", "rewrite_shelf_metadata", "rewrite_shelf_name"}

\* C17: checkout_shelf, rewrite_shelf_metadata and rewrite_shelf_name on a
\* path that is not a known path or is not on disk raise the not-found error
\* and change neither the known paths nor any file nor the lock registry.
C17_MissingShelfRejected ==
    [][(/\ \E op \in ShelfReadUpdateOps : Called(op)
        /\ \/ get_validated_path_str(res'.path) \notin paths
           \/ ~FsExists(State, get_validated_path_str(res'.path)))
       => (res'.out = "NotFound" /\ UNCHANGED fsvars)]_vars

C17_Witness ==
    /\ res.op = "rewrite_shelf_name" /\ res.out = "NotFound"
    /\ FsExists(State, get_validated_path_str(res.path))
    /\ get_validated_path_str(res.path) \notin paths

\* on disk below the library root, yet not a known path
Foreign(p) == p # << >> /\ FsExists(State, p) /\ p \notin paths

\* C18: a call whose path argument resolves to a path that is on disk but is
\* not a known path (for create_shelf: the directory the shelf would go
\* into) raises, and changes neither the known paths nor the disk.
C18_ForeignPathsRejected ==
    [][(nops' = nops + 1 /\ Foreign(get_validated_path_str(res'.path)))
       => (/\ res'.out # "ok"
           /\ paths' = paths /\ dirs' = dirs /\ files' = files
           /\ cwd_files' = cwd_files)]_vars

\* C19: remove_section on a path that is not a known path or not on disk
\* raises not-found and changes nothing; on a known section whose directory
\* is empty it removes the directory and the known path and nothing else; on
\* a known section whose directory is not empty it raises and leaves the
\* directory on disk and the path known.
C19_RemoveSection ==
    [][Called("remove_section") =>
        LET p == get_validated_path_str(res'.path)
        IN /\ (p \notin paths \/ ~FsExists(State, p))
                => (res'.out = "NotFound" /\ UNCHANGED fsvars)
           /\ (p \in paths \cap dirs /\ FsChildren(State, p) = {})
                => (/\ res'.out = "ok"
                    /\ dirs' = dirs \ {p} /\ paths' = paths \ {p}
                    /\ files' = files)
           /\ (p \in paths \cap dirs /\ FsChildren(State, p) # {})
                => (res'.out = "OSError" /\ UNCHANGED fsvars)]_vars

C19_Witness ==
    /\ res.op = "remove_section" /\ res.out = "ok"
    /\ get_validated_path_str(res.path) \notin paths \cup dirs
    /\ Parent(get_validated_path_str(res.path)) \in paths \cap dirs
    /\ FsChildren(State, Parent(get_validated_path_str(res.path))) # {}

\* C20: when rewrite_section_metadata with mapping M on a section that is a
\* known path and on disk completes, the section's metadata.db holds exactly
\* M and every other file is as it was; completed or not, the call leaves
\* the known paths and the directories unchanged; and it completes unless
\* the section's metadata.db is a directory.
C20_SectionMetadataWholesale ==
    [][(/\ Called("rewrite_section_metadata")
        /\ get_validated_path_str(res'.path) \in paths \cap dirs)
       => LET mp == get_validated_path_str(res'.path) \o <<MetadataDb>>
          IN /\ res'.out = "ok" =>
                    /\ DOMAIN files' = DOMAIN files \cup {mp}
                    /\ files'[mp] = res'.md
                    /\ \A f \in DOMAIN files \ {mp} : files'[f] = files[f]
             /\ res'.out # "ok" => files' = files
             /\ ~FsIsDir(State, mp) => res'.out = "ok"
             /\ paths' = paths /\ dirs' = dirs /\ cwd_files' = cwd_files]_vars

C20_Witness ==
    /\ res.op = "rewrite_section_metadata" /\ res.out = "ok"
    /\ res.md = EmptyMap
    /\ files[get_validated_path_str(res.path) \o <<MetadataDb>>] = EmptyMap
    /\ \E f \in DOMAIN files : Name(f) = MetadataDb /\ files[f] = M1
    /\ \E f \in DOMAIN files : Name(f) # MetadataDb /\ files[f] = KV

\* C23: rewrite_shelf_metadata with mapping M on a created shelf (its file on
\* disk and a known path) completes; the shelf then holds M under the key
\* "metadata" and its other pairs as before, and every other file and the
\* known paths are unchanged.
C23_ShelfMetadataFrame ==
    [][(/\ Called("rewrite_shelf_metadata")
        /\ ShelfFileOf(res'.path) \in paths \cap DOMAIN files)
       => LET f == ShelfFileOf(res'.path)
          IN /\ res'.out = "ok"
             /\ DOMAIN files' = DOMAIN files
             /\ files'[f] = Update(files[f], {<<"metadata", Repr(res'.md)>>})
             /\ \A g \in DOMAIN files \ {f} : files'[g] = files[g]
             /\ paths' = paths /\ dirs' = dirs]_vars

\* C26: rewrite_shelf_name to a name whose shelf file, in the same directory,
\* is a known path or is on disk raises and changes neither the known paths
\* nor the disk; a rewrite_shelf_name that completes leaves no fewer files
\* on disk and no fewer known paths than before.
C26_ShelfRenameNeverDestroys ==
    [][Called("rewrite_shelf_name") =>
        LET p == get_validated_path_str(res'.path)
            np == Parent(p) \o <<Db(res'.name)>>
        IN /\ (np \in paths \/ FsExists(State, np))
                => (/\ res'.out # "ok"
                    /\ paths' = paths /\ dirs' = dirs /\ files' = files)
           /\ res'.out = "ok"
                => (/\ Cardinality(DOMAIN files') >= Cardinality(DOMAIN files)
                    /\ Cardinality(paths') >= Cardinality(paths))]_vars

\* C27: no known path is ever named metadata.db, and rewrite_shelf_name
\* with the new name "metadata" raises and changes neither the known paths
\* nor the disk.
C27_ReservedNameAcrossRenames ==
    [][/\ \A p \in paths' : Name(p) # MetadataDb
       /\ (Called("rewrite_shelf_name") /\ res'.name = "metadata")
            => (/\ res'.out # "ok"
                /\ paths' = paths /\ dirs' = dirs /\ files' = files)]_vars

ShelfOpsOnPaths == {"remove_shelf", "rewrite_shelf_name", "checkout_shelf",
                    "rewrite_shelf_metadata"}

\* C28: remove_shelf, rewrite_shelf_name, checkout_shelf and
\* rewrite_shelf_metadata on a path that resolves to the directory of a known
\* section raise and change neither the known paths nor the disk.
C28_ShelfOpsSpareSections ==
    [][(/\ \E op \in ShelfOpsOnPaths : Called(op)
        /\ get_validated_path_str(res'.path) \in paths \cap dirs)
       => (/\ res'.out # "ok"
           /\ paths' = paths /\ dirs' = dirs /\ files' = files)]_vars

\* C29: remove_section called right after the create_section that made the
\* section completes, and the directory is then neither on disk nor a known
\* path.
C29_RemovableAfterCreation ==
    [][(/\ Called("remove_section")
        /\ res.op = "create_section" /\ res.out = "ok"
        /\ res'.path = res.path)
       => (/\ res'.out = "ok"
           /\ get_validated_path_str(res'.path) \notin dirs'
           /\ get_validated_path_str(res'.path) \notin paths')]_vars

CheckoutWalks == {"checkout_section", "checkout_library"}

\* C30: the mapping a checkout_section or checkout_library returns has as
\* many entries as the directory checked out has children: no two children
\* share a key.
C30_CheckoutLosesNoChild ==
    (res.op \in CheckoutWalks /\ res.out = "ok")
        => Cardinality(res.val)
             = Cardinality(FsChildren(State, get_validated_path_str(res.path)))

----------------------------------------------------------------------------
(* Claims about two threads (SpecThreads) *)

HasLock(t) == pc[t] \in {"acquire", "open", "write", "release"}

\* C2: two threads writing the same shelf are never both between the
\* opening and the closing of its container.
C2_LockExclusivity ==
    \A t \in Threads, u \in Threads :
        (t # u /\ InShelf(t) /\ InShelf(u)) => call[t].target # call[u].target

\* C6: every call of _get_shelf_lock for a path returns the same Lock
\* object, and at most one Lock object is ever made for a path.
C6_LockRegistryIdentity ==
    /\ \A l1 \in all_locks, l2 \in all_locks : l1.path = l2.path => l1 = l2
    /\ \A t \in Threads, u \in Threads :
          (HasLock(t) /\ HasLock(u) /\ call[t].target = call[u].target)
              => call[t].lock = call[u].lock

\* C7: a shelf file is not deleted while a thread is between the opening and
\* the closing of that shelf: the thread still finds its file on disk.
C7_NoDeleteWhileOpen ==
    \A t \in Threads : InShelf(t) => FsIsFile(State, call[t].target)

\* the Lock objects thread t holds
LocksHeld(t) == {l \in DOMAIN held : held[l] = t}
Waiting(t) == pc[t] = "acquire" /\ call[t].lock \in DOMAIN held

\* C12: a thread holds at most one Lock; it holds none while it walks a
\* section (checkout_section) or unlinks its shelves (clear_section), nor
\* when it asks for one; and a thread waiting for a Lock waits for a thread
\* that is not itself waiting, so no cycle of waiting threads exists.
C12_NoNestedLocking ==
    \A t \in Threads :
        /\ Cardinality(LocksHeld(t)) <= 1
        /\ pc[t] \in {"idle", "walk", "unlink", "acquire"} => LocksHeld(t) = {}
        /\ Waiting(t) => /\ held[call[t].lock] # t
                         /\ ~Waiting(held[call[t].lock])
                         /\ pc[held[call[t].lock]] \in {"open", "write", "release"}

C12_Witness ==
    \E t \in Threads, u \in Threads :
        /\ Waiting(t) /\ held[call[t].lock] = u
        /\ tres[t].op = "checkout_section" /\ tres[t].out = "ok"
        /\ tres[u].op = "clear_section"

\* C22: a step that adds a path to the known paths or removes one from them
\* is taken by a thread that holds a Lock.
C22_KnownPathsUnderLock ==
    [][paths' # paths =>
        \E t \in Threads : pc'[t] # pc[t] /\ LocksHeld(t) # {}]_vars

C25_ConcurrentDuplicateCreate ==
    \A t \in Threads, u \in Threads :
        (/\ t # u
         /\ tres[t].op = "create_shelf" /\ tres[t].out = "ok"
         /\ tres[u].op = "create_shelf"
         /\ tres[u].name = tres[t].name /\ tres[u].path = tres[t].path)
        => (/\ tres[u].out = "AlreadyExists"
            /\ FsIsFile(State, ShelfTarget(tres[t].name, tres[t].path))
                => files[ShelfTarget(tres[t].name, tres[t].path)] = tres[t].md)

----------------------------------------------------------------------------
(* Claims about construction (SpecConstruct) *)

\* the sections whose create_section has returned
CreatedSections ==
    {get_validated_path_str(section_path_strs[i]) :
        i \in 1..(IF clean THEN nops ELSE nops - 1)}

ConstructedPrefix ==
    /\ paths = CreatedSections
    /\ dirs = CreatedSections
    /\ DOMAIN files = {p \o <<MetadataDb>> : p \in CreatedSections}
    /\ DOMAIN shelf_locks = {p \o <<MetadataDb>> : p \in CreatedSections}
    /\ nops > 0 => res.path = section_path_strs[nops]

\* C21: the constructor calls create_section for the initial sections in
\* list order and stops at the first call that raises: no call follows a
\* failed one, and at every point the directories, the known paths and the
\* locked metadata containers are exactly those of the sections created so
\* far (all of them when no call has raised, those before the failed one
\* otherwise).
C21_ConstructionFailFast ==
    [][clean /\ ConstructedPrefix']_vars

C21_Witness ==
    /\ ~clean /\ nops = 2 /\ Len(section_path_strs) = 3
    /\ res.out = "FileNotFoundError"
    /\ paths = {<<"a">>}
    /\ section_path_strs[3] = <<"a", "b">>

====
